---- MODULE Spec2Model ----
(***************************************************************************)
(* The map family of ch10/map.py (UnsortedListMap, ChainHashMap,           *)
(* ProbeHashMap, SortedTableMap) and ch11/binary_search_tree.py (TreeMap)  *)
(* as one state machine: a program constructs one of the five containers   *)
(* and calls set / delete / get on it, next to an abstract reference map   *)
(* that receives the same calls.  The LinkedQueue of ch7/linked_queue.py   *)
(* stands next to them, with enqueue / dequeue / first and a reference     *)
(* queue.                                                                  *)
(*                                                                         *)
(* Python indices are kept 0-based in the operators (j, mid, low, high);   *)
(* a TLA+ sequence is read at index + 1.                                   *)
(***************************************************************************)
EXTENDS Integers, Sequences, FiniteSets, TLC

VARIABLES variant, unsorted, chain, probe, sorted, tree, ref, last, queue, fifo

vars == <<variant, unsorted, chain, probe, sorted, tree, ref, last, queue, fifo>>

(***************************************************************************)
(* Bounds of the model.                                                    *)
(***************************************************************************)
\* Spec: keys 0..MaxKey, hash tables of SmallCap slots.
MaxKey == 2
SmallCap == 2
\* SpecDefault: keys 0..MaxKeyDefault, hash tables of the default capacity.
MaxKeyDefault == 5
\* SpecSorted: keys 0..MaxKeySorted, the two sorted maps.
MaxKeySorted == 3
\* The longest queue: enqueue is called on shorter queues only.
MaxQueue == 3

(***************************************************************************)
(* Program constants.                                                      *)
(***************************************************************************)
DefaultCap == 11
DefaultPrime == 109345121

Min(S) == CHOOSE x \in S : \A y \in S : x <= y
Max(S) == CHOOSE x \in S : \A y \in S : y <= x

Range(s) == {s[i] : i \in 1..Len(s)}

(***************************************************************************)
(* Outcomes of a call: a returned value, a return of None, a KeyError, or  *)
(* a call that never returns.                                              *)
(***************************************************************************)
Returned(v) == [kind |-> "value", val |-> v]
ReturnedNone == [kind |-> "None", val |-> 0]
KeyError == [kind |-> "KeyError", val |-> 0]
Diverges == [kind |-> "diverges", val |-> 0]
\* return k, v
Pair(k, v) == [kind |-> "pair", val |-> <<k, v>>]
AttributeError == [kind |-> "AttributeError", val |-> 0]

(***************************************************************************)
(* MapBase._Item                                                           *)
(***************************************************************************)
Item(k, v) == [key |-> k, value |-> v]

\* The keys of a list of items, in list order.
KeysOf(table) == [i \in 1..Len(table) |-> table[i].key]

\* s without its element at 0-based index j (list.pop(j)).
Pop(s, j) == [i \in 1..(Len(s) - 1) |-> IF i <= j THEN s[i] ELSE s[i + 1]]

\* s with x inserted before 0-based index j (list.insert(j, x)).
Insert(s, j, x) ==
    [i \in 1..(Len(s) + 1) |-> IF i <= j THEN s[i] ELSE IF i = j + 1 THEN x ELSE s[i - 1]]

(***************************************************************************)
(* UnsortedListMap: _table is a list of items.                             *)
(***************************************************************************)
\* The 0-based index of the first item with this key, -1 if the scan ends.
ULM_scan(table, key) ==
    LET hits == {j \in 0..(Len(table) - 1) : key = table[j + 1].key}
    IN  IF hits = {} THEN -1 ELSE Min(hits)

ULM_getitem(table, key) ==
    LET j == ULM_scan(table, key)
    IN  IF j >= 0 THEN Returned(table[j + 1].value) ELSE KeyError

ULM_setitem(table, key, value) ==
    LET j == ULM_scan(table, key)
    IN  IF j >= 0
        THEN [table EXCEPT ![j + 1].value = value]
        ELSE Append(table, Item(key, value))

\* Mutant of ULM_delitem: the last item is moved into the place of the one
\* removed.
ULM_delitem_moves_last(table, key) ==
    LET j == ULM_scan(table, key)
    IN  IF j >= 0
        THEN [table |-> Pop([table EXCEPT ![j + 1] = table[Len(table)]], Len(table) - 1),
              out |-> ReturnedNone]
        ELSE [table |-> table, out |-> KeyError]

ULM_delitem(table, key) ==
    LET j == ULM_scan(table, key)
    IN  IF j >= 0
        THEN [table |-> Pop(table, j), out |-> ReturnedNone]
        ELSE [table |-> table, out |-> KeyError]

ULM_len(table) == Len(table)

ULM_iter(table) == KeysOf(table)

(***************************************************************************)
(* HashMapBase: _table, _n, _prime, _scale, _shift.  A ChainHashMap slot   *)
(* is None or an UnsortedListMap; a ProbeHashMap slot is None, the _AVAIL  *)
(* sentinel or an item.                                                    *)
(***************************************************************************)
NoneBucket == [tag |-> "None", table |-> <<>>]
Bucket(t) == [tag |-> "Map", table |-> t]

NoneSlot == [tag |-> "None", key |-> 0, value |-> 0]
AvailSlot == [tag |-> "AVAIL", key |-> 0, value |-> 0]
ItemSlot(k, v) == [tag |-> "Item", key |-> k, value |-> v]

EmptyTable(kind, cap) ==
    [i \in 1..cap |-> IF kind = "chain" THEN NoneBucket ELSE NoneSlot]

\* hash(k) of a small non-negative int is the int itself.
hash(k) == k

HashMapBase_init(kind, cap, p, scale, shift) ==
    [table |-> EmptyTable(kind, cap), n |-> 0, prime |-> p,
     scale |-> scale, shift |-> shift]

hash_function(m, k) ==
    ((m.scale * hash(k) + m.shift) % m.prime) % Len(m.table)

HashMapBase_len(m) == m.n

(***************************************************************************)
(* ChainHashMap                                                            *)
(***************************************************************************)
Chain_bucket_getitem(m, j, k) ==
    LET bucket == m.table[j + 1]
    IN  IF bucket.tag = "None" THEN KeyError ELSE ULM_getitem(bucket.table, k)

Chain_bucket_setitem(m, j, k, v) ==
    LET b0 == IF m.table[j + 1].tag = "None" THEN <<>> ELSE m.table[j + 1].table
        oldsize == ULM_len(b0)
        b1 == ULM_setitem(b0, k, v)
    IN  [m |-> [m EXCEPT !.table[j + 1] = Bucket(b1),
                         !.n = IF ULM_len(b1) > oldsize THEN m.n + 1 ELSE m.n],
         out |-> ReturnedNone]

Chain_bucket_delitem(m, j, k) ==
    LET bucket == m.table[j + 1]
    IN  IF bucket.tag = "None"
        THEN [m |-> m, out |-> KeyError]
        ELSE LET r == ULM_delitem(bucket.table, k)
             IN  [m |-> [m EXCEPT !.table[j + 1] = Bucket(r.table)], out |-> r.out]

RECURSIVE Chain_iter_from(_, _)
Chain_iter_from(table, i) ==
    IF i > Len(table) THEN <<>>
    ELSE (IF table[i].tag = "None" THEN <<>> ELSE ULM_iter(table[i].table))
         \o Chain_iter_from(table, i + 1)

Chain_iter(m) == Chain_iter_from(m.table, 1)

(***************************************************************************)
(* ProbeHashMap                                                            *)
(***************************************************************************)
is_available(table, j) ==
    table[j + 1].tag = "None" \/ table[j + 1].tag = "AVAIL"

\* The while True loop of _find_slot.  The loop does not write the table, so
\* once it has looked at every slot (steps = capacity) without returning it
\* is back at its first slot with nothing changed that could let it return:
\* it runs forever.
RECURSIVE find_slot_loop(_, _, _, _, _)
find_slot_loop(table, j, k, first_avail, steps) ==
    IF steps = Len(table)
    THEN [found |-> FALSE, slot |-> -1, diverges |-> TRUE]
    ELSE IF is_available(table, j)
         THEN LET fa == IF first_avail = -1 THEN j ELSE first_avail
              IN  IF table[j + 1].tag = "None"
                  THEN [found |-> FALSE, slot |-> fa, diverges |-> FALSE]
                  ELSE find_slot_loop(table, (j + 1) % Len(table), k, fa, steps + 1)
         ELSE IF k = table[j + 1].key
              THEN [found |-> TRUE, slot |-> j, diverges |-> FALSE]
              ELSE find_slot_loop(table, (j + 1) % Len(table), k, first_avail, steps + 1)

\* Mutant of find_slot: the probe gives up at the first available slot, a
\* tombstone included, instead of going on to a slot that is None.
RECURSIVE find_slot_stops_at_tombstone_loop(_, _, _, _)
find_slot_stops_at_tombstone_loop(table, j, k, steps) ==
    IF steps = Len(table)
    THEN [found |-> FALSE, slot |-> -1, diverges |-> TRUE]
    ELSE IF is_available(table, j)
         THEN [found |-> FALSE, slot |-> j, diverges |-> FALSE]
         ELSE IF k = table[j + 1].key
              THEN [found |-> TRUE, slot |-> j, diverges |-> FALSE]
              ELSE find_slot_stops_at_tombstone_loop(table, (j + 1) % Len(table), k, steps + 1)

find_slot_stops_at_tombstone(table, j, k) ==
    find_slot_stops_at_tombstone_loop(table, j, k, 0)

find_slot(table, j, k) == find_slot_loop(table, j, k, -1, 0)

Probe_bucket_getitem(m, j, k) ==
    LET r == find_slot(m.table, j, k)
    IN  IF r.diverges THEN Diverges
        ELSE IF ~r.found THEN KeyError
        ELSE Returned(m.table[r.slot + 1].value)

Probe_bucket_setitem(m, j, k, v) ==
    LET r == find_slot(m.table, j, k)
    IN  IF r.diverges THEN [m |-> m, out |-> Diverges]
        ELSE IF ~r.found
        THEN [m |-> [m EXCEPT !.table[r.slot + 1] = ItemSlot(k, v), !.n = m.n + 1],
              out |-> ReturnedNone]
        ELSE [m |-> [m EXCEPT !.table[r.slot + 1].value = v], out |-> ReturnedNone]

\* Mutant of Probe_bucket_delitem: the slot is emptied (None) and no
\* tombstone is left.
Probe_bucket_delitem_empties_slot(m, j, k) ==
    LET r == find_slot(m.table, j, k)
    IN  IF r.diverges THEN [m |-> m, out |-> Diverges]
        ELSE IF ~r.found THEN [m |-> m, out |-> KeyError]
        ELSE [m |-> [m EXCEPT !.table[r.slot + 1] = NoneSlot], out |-> ReturnedNone]

Probe_bucket_delitem(m, j, k) ==
    LET r == find_slot(m.table, j, k)
    IN  IF r.diverges THEN [m |-> m, out |-> Diverges]
        ELSE IF ~r.found THEN [m |-> m, out |-> KeyError]
        ELSE [m |-> [m EXCEPT !.table[r.slot + 1] = AvailSlot], out |-> ReturnedNone]

RECURSIVE Probe_iter_from(_, _)
Probe_iter_from(table, j) ==
    IF j >= Len(table) THEN <<>>
    ELSE (IF ~is_available(table, j) THEN <<table[j + 1].key>> ELSE <<>>)
         \o Probe_iter_from(table, j + 1)

Probe_iter(m) == Probe_iter_from(m.table, 0)

(***************************************************************************)
(* HashMapBase, over the bucket methods of the two subclasses.             *)
(***************************************************************************)
bucket_getitem(kind, m, j, k) ==
    IF kind = "chain" THEN Chain_bucket_getitem(m, j, k) ELSE Probe_bucket_getitem(m, j, k)

bucket_setitem(kind, m, j, k, v) ==
    IF kind = "chain" THEN Chain_bucket_setitem(m, j, k, v) ELSE Probe_bucket_setitem(m, j, k, v)

bucket_delitem(kind, m, j, k) ==
    IF kind = "chain" THEN Chain_bucket_delitem(m, j, k) ELSE Probe_bucket_delitem(m, j, k)

HashMap_iter(kind, m) ==
    IF kind = "chain" THEN Chain_iter(m) ELSE Probe_iter(m)

HashMapBase_getitem(kind, m, k) ==
    LET j == hash_function(m, k)
    IN  bucket_getitem(kind, m, j, k)

\* list(self.items()): the keys in iteration order, each with self[key].
HashMap_items(kind, m) ==
    LET ks == HashMap_iter(kind, m)
    IN  [i \in 1..Len(ks) |-> <<ks[i], HashMapBase_getitem(kind, m, ks[i]).val>>]

\* Mutant of needs_resize: n is compared with the capacity, not with half
\* of it.
needs_resize_at_capacity(m) == m.n > Len(m.table)

\* The load test of __setitem__: True when the table must grow.
needs_resize(m) == m.n > Len(m.table) \div 2

\* The capacity __setitem__ asks _resize for.
resize_cap(m) == 2 * Len(m.table) - 1

RECURSIVE HashMapBase_setitem(_, _, _, _)
RECURSIVE resize_reinsert(_, _, _, _)

\* Mutant of resize_fresh: the resize draws a new shift for the hash function.
resize_fresh_new_shift(kind, m, cap) ==
    [m EXCEPT !.table = EmptyTable(kind, cap), !.n = 0, !.shift = (m.shift + 1) % m.prime]

\* The table _resize starts its reinsertion from.
resize_fresh(kind, m, cap) ==
    [m EXCEPT !.table = EmptyTable(kind, cap), !.n = 0]

\* Mutant of HashMapBase_resize: the items are listed after the table was
\* replaced, so nothing is put back.
HashMapBase_resize_lists_too_late(kind, m, cap) ==
    LET fresh == resize_fresh(kind, m, cap)
    IN  resize_reinsert(kind, fresh, HashMap_items(kind, fresh), 1)

\* Mutant of HashMapBase_resize: the table is lengthened with None slots
\* and the items stay in the slots they had, without being hashed again.
HashMapBase_resize_keeps_slots(kind, m, cap) ==
    [m EXCEPT !.table = m.table \o SubSeq(EmptyTable(kind, cap), Len(m.table) + 1, cap)]

HashMapBase_resize(kind, m, cap) ==
    LET old == HashMap_items(kind, m)
    IN  resize_reinsert(kind, resize_fresh(kind, m, cap), old, 1)

\* for k, v in old: self[k] = v
resize_reinsert(kind, m, old, i) ==
    IF i > Len(old) THEN m
    ELSE resize_reinsert(kind, HashMapBase_setitem(kind, m, old[i][1], old[i][2]).m,
                         old, i + 1)

HashMapBase_setitem(kind, m, k, v) ==
    LET j == hash_function(m, k)
        r == bucket_setitem(kind, m, j, k, v)
    IN  IF r.out.kind = "diverges" THEN r
        ELSE IF needs_resize(r.m)
        THEN [m |-> HashMapBase_resize(kind, r.m, resize_cap(r.m)), out |-> ReturnedNone]
        ELSE r

\* Mutant of HashMapBase_delitem: n is left as it was.
HashMapBase_delitem_keeps_n(kind, m, k) ==
    bucket_delitem(kind, m, hash_function(m, k), k)

HashMapBase_delitem(kind, m, k) ==
    LET j == hash_function(m, k)
        r == bucket_delitem(kind, m, j, k)
    IN  IF r.out.kind = "None"
        THEN [m |-> [r.m EXCEPT !.n = r.m.n - 1], out |-> ReturnedNone]
        ELSE r

(***************************************************************************)
(* SortedTableMap: _table is a list of items kept in key order.            *)
(***************************************************************************)
RECURSIVE find_index(_, _, _, _)
find_index(table, k, low, high) ==
    IF high < low
    THEN high + 1
    ELSE LET mid == (low + high) \div 2
         IN  IF k = table[mid + 1].key THEN mid
             ELSE IF k < table[mid + 1].key
             THEN find_index(table, k, low, mid - 1)
             ELSE find_index(table, k, mid + 1, high)

STM_len(table) == Len(table)

STM_getitem(table, k) ==
    LET j == find_index(table, k, 0, Len(table) - 1)
    IN  IF j = Len(table) \/ table[j + 1].key # k
        THEN KeyError
        ELSE Returned(table[j + 1].value)

\* Mutant of STM_setitem: a new item is appended, as in UnsortedListMap,
\* and not inserted at its index.
STM_setitem_appends(table, k, v) ==
    LET j == find_index(table, k, 0, Len(table) - 1)
    IN  IF j < Len(table) /\ table[j + 1].key = k
        THEN [table EXCEPT ![j + 1].value = v]
        ELSE Append(table, Item(k, v))

STM_setitem(table, k, v) ==
    LET j == find_index(table, k, 0, Len(table) - 1)
    IN  IF j < Len(table) /\ table[j + 1].key = k
        THEN [table EXCEPT ![j + 1].value = v]
        ELSE Insert(table, j, Item(k, v))

STM_delitem(table, k) ==
    LET j == find_index(table, k, 0, Len(table) - 1)
    IN  IF j = Len(table) \/ table[j + 1].key # k
        THEN [table |-> table, out |-> KeyError]
        ELSE [table |-> Pop(table, j), out |-> ReturnedNone]

STM_iter(table) == KeysOf(table)

\* An argument that may be None (start and stop of find_range).
NoneArg == [isNone |-> TRUE, key |-> 0]
KeyArg(k) == [isNone |-> FALSE, key |-> k]

RECURSIVE STM_find_range_loop(_, _, _)
STM_find_range_loop(table, j, stop) ==
    IF j < Len(table) /\ (stop.isNone \/ table[j + 1].key < stop.key)
    THEN <<Item(table[j + 1].key, table[j + 1].value)>>
         \o STM_find_range_loop(table, j + 1, stop)
    ELSE <<>>

STM_find_range(table, start, stop) ==
    LET j == IF start.isNone THEN 0
             ELSE find_index(table, start.key, 0, Len(table) - 1)
    IN  STM_find_range_loop(table, j, stop)

\* _Item.__eq__(self, other) called with a key as other: it reads other.key,
\* which a key (a number, a string) does not have.
Item_eq_key(item, k) == AttributeError

STM_find_min(table) ==
    IF Len(table) > 0 THEN Pair(table[1].key, table[1].value) ELSE ReturnedNone

STM_find_le(table, k) ==
    LET j == find_index(table, k, 0, Len(table) - 1)
    IN  IF j > 0
        THEN IF j < Len(table) /\ table[j + 1].key = k
             THEN Pair(table[j + 1].key, table[j + 1].value)
             ELSE Pair(table[j].key, table[j].value)
        ELSE ReturnedNone

\* The first test is "j < len(self._table) and self._table[j] == k": when j
\* is an index of the table the comparison is made, and it raises.
STM_find_gt(table, k) ==
    LET j == find_index(table, k, 0, Len(table) - 1)
    IN  IF j < Len(table)
        THEN Item_eq_key(table[j + 1], k)
        ELSE ReturnedNone

STM_find_ge(table, k) ==
    LET j == find_index(table, k, 0, Len(table) - 1)
    IN  IF j < Len(table) THEN Pair(table[j + 1].key, table[j + 1].value) ELSE ReturnedNone

(***************************************************************************)
(* LinkedBinaryTree (ch8.tree), the positional tree TreeMap is built on.   *)
(* A tree is [root, size, node].  A position is written as the path from   *)
(* the root to its node: 1 for the root, 2p for the left child of p and    *)
(* 2p + 1 for its right child; node maps each position of the tree to the  *)
(* item stored there, and 0 stands for None.  Which memory cell a node     *)
(* lives in is not observable through the tree's interface, so a node that *)
(* is promoted on a delete is found again under its new path.              *)
(***************************************************************************)
EmptyTree == [root |-> 0, size |-> 0, node |-> [p \in {} |-> 0]]

LBT_len(t) == t.size
is_empty(t) == LBT_len(t) = 0
root(t) == t.root
left(t, p) == IF 2 * p \in DOMAIN t.node THEN 2 * p ELSE 0
right(t, p) == IF 2 * p + 1 \in DOMAIN t.node THEN 2 * p + 1 ELSE 0
parent(t, p) == IF p = t.root THEN 0 ELSE p \div 2
element(t, p) == t.node[p]

add_node(t, p, e) ==
    [x \in DOMAIN t.node \cup {p} |-> IF x = p THEN e ELSE t.node[x]]

add_root(t, e) == [root |-> 1, size |-> 1, node |-> add_node(t, 1, e)]

add_left(t, p, e) ==
    [t EXCEPT !.size = t.size + 1, !.node = add_node(t, 2 * p, e)]

add_right(t, p, e) ==
    [t EXCEPT !.size = t.size + 1, !.node = add_node(t, 2 * p + 1, e)]

replace(t, p, e) == [t EXCEPT !.node[p] = e]

\* Whether position q lies in the subtree rooted at position c.
RECURSIVE in_subtree(_, _)
in_subtree(q, c) ==
    IF q = c THEN TRUE ELSE IF q <= c THEN FALSE ELSE in_subtree(q \div 2, c)

\* The path of q, a position of the subtree rooted at c, once c stands at p.
RECURSIVE promoted(_, _, _)
promoted(q, c, p) ==
    IF q = c THEN p ELSE 2 * promoted(q \div 2, c, p) + (q % 2)

\* _delete(p): p has at most one child, whose subtree takes p's place.
LBT_delete(t, p) ==
    LET child == IF left(t, p) # 0 THEN left(t, p) ELSE right(t, p)
        moved == {q \in DOMAIN t.node : child # 0 /\ in_subtree(q, child)}
        kept == (DOMAIN t.node \ {p}) \ moved
        from(x) == CHOOSE q \in moved : promoted(q, child, p) = x
    IN  [root |-> IF p = t.root /\ child = 0 THEN 0 ELSE t.root,
         size |-> t.size - 1,
         node |-> [x \in kept \cup {promoted(q, child, p) : q \in moved} |->
                      IF x \in kept THEN t.node[x] ELSE t.node[from(x)]]]

(***************************************************************************)
(* TreeMap                                                                 *)
(***************************************************************************)
key(t, p) == element(t, p).key
value(t, p) == element(t, p).value

RECURSIVE subtree_search(_, _, _)
subtree_search(t, p, k) ==
    IF k = key(t, p) THEN p
    ELSE IF k < key(t, p)
    THEN IF left(t, p) # 0 THEN subtree_search(t, left(t, p), k) ELSE p
    ELSE IF right(t, p) # 0 THEN subtree_search(t, right(t, p), k) ELSE p

RECURSIVE subtree_first_position(_, _)
subtree_first_position(t, p) ==
    IF left(t, p) # 0 THEN subtree_first_position(t, left(t, p)) ELSE p

RECURSIVE subtree_last_position(_, _)
subtree_last_position(t, p) ==
    IF right(t, p) # 0 THEN subtree_last_position(t, right(t, p)) ELSE p

first(t) == IF LBT_len(t) > 0 THEN subtree_first_position(t, root(t)) ELSE 0

last_position(t) == IF LBT_len(t) > 0 THEN subtree_last_position(t, root(t)) ELSE 0

\* Mutant of before: with a left child, before(p) is that child.
before_is_left_child(t, p) ==
    IF left(t, p) # 0 THEN left(t, p) ELSE parent(t, p)

\* The walk up of before(): while walk is the left child of its ancestor.
RECURSIVE before_walk(_, _, _)
before_walk(t, walk, ancestor) ==
    IF ancestor # 0 /\ walk = left(t, ancestor)
    THEN before_walk(t, ancestor, parent(t, ancestor))
    ELSE ancestor

before(t, p) ==
    IF left(t, p) # 0
    THEN subtree_last_position(t, left(t, p))
    ELSE before_walk(t, p, parent(t, p))

\* The walk up of after(): while walk is the right child of its ancestor.
RECURSIVE after_walk(_, _, _)
after_walk(t, walk, ancestor) ==
    IF ancestor # 0 /\ walk = right(t, ancestor)
    THEN after_walk(t, ancestor, parent(t, ancestor))
    ELSE ancestor

after(t, p) ==
    IF right(t, p) # 0
    THEN subtree_first_position(t, right(t, p))
    ELSE after_walk(t, p, parent(t, p))

find_position(t, k) ==
    IF is_empty(t) THEN 0 ELSE subtree_search(t, root(t), k)

TreeMap_find_min(t) ==
    IF is_empty(t) THEN ReturnedNone
    ELSE LET p == first(t) IN Pair(key(t, p), value(t, p))

\* The return statement is "return p.key(), p.value() if p is not None else
\* None": the conditional covers p.value() only, and p.key() is called first.
TreeMap_find_ge(t, k) ==
    IF is_empty(t) THEN ReturnedNone
    ELSE LET p0 == find_position(t, k)
             p == IF key(t, p0) < k THEN after(t, p0) ELSE p0
         IN  IF p = 0 THEN AttributeError ELSE Pair(key(t, p), value(t, p))

TreeMap_getitem(t, k) ==
    IF is_empty(t) THEN KeyError
    ELSE LET p == subtree_search(t, root(t), k)
         IN  IF k # key(t, p) THEN KeyError ELSE Returned(value(t, p))

\* Mutant of TreeMap_setitem: the new leaf goes to the other side.
TreeMap_setitem_other_side(t, k, v) ==
    IF is_empty(t) THEN add_root(t, Item(k, v))
    ELSE LET p == subtree_search(t, root(t), k)
         IN  IF key(t, p) = k
             THEN [t EXCEPT !.node[p].value = v]
             ELSE IF key(t, p) < k
                  THEN add_left(t, p, Item(k, v))
                  ELSE add_right(t, p, Item(k, v))

TreeMap_setitem(t, k, v) ==
    IF is_empty(t) THEN add_root(t, Item(k, v))
    ELSE LET p == subtree_search(t, root(t), k)
         IN  IF key(t, p) = k
             THEN [t EXCEPT !.node[p].value = v]
             ELSE IF key(t, p) < k
                  THEN add_right(t, p, Item(k, v))
                  ELSE add_left(t, p, Item(k, v))

\* The loop of __iter__ and of find_range: from p along after() while p is
\* not None and its key is below stop.
RECURSIVE TreeMap_walk(_, _, _)
TreeMap_walk(t, p, stop) ==
    IF p # 0 /\ (stop.isNone \/ key(t, p) < stop.key)
    THEN <<Item(key(t, p), value(t, p))>> \o TreeMap_walk(t, after(t, p), stop)
    ELSE <<>>

TreeMap_iter(t) == KeysOf(TreeMap_walk(t, first(t), NoneArg))

\* Mutant of TreeMap_find_range: the walk starts at the position the search
\* for start ended at, also when its key is below start.
TreeMap_find_range_from_search(t, start, stop) ==
    IF ~is_empty(t)
    THEN LET p == IF start.isNone THEN first(t) ELSE find_position(t, start.key)
         IN  TreeMap_walk(t, p, stop)
    ELSE <<>>

TreeMap_find_range(t, start, stop) ==
    IF ~is_empty(t)
    THEN LET p0 == IF start.isNone THEN first(t) ELSE find_position(t, start.key)
             p == IF ~start.isNone /\ key(t, p0) < start.key THEN after(t, p0) ELSE p0
         IN  TreeMap_walk(t, p, stop)
    ELSE <<>>

\* Mutant of delete_replacement: the first position of the left subtree and
\* not its last.
delete_replacement_first(t, p) == subtree_first_position(t, left(t, p))

\* The node delete(p) ends up removing: p, or with two children the last
\* position of p's left subtree.
delete_replacement(t, p) == subtree_last_position(t, left(t, p))

TreeMap_delete(t, p) ==
    IF left(t, p) # 0 /\ right(t, p) # 0
    THEN LET replacement == delete_replacement(t, p)
         IN  LBT_delete(replace(t, p, element(t, replacement)), replacement)
    ELSE LBT_delete(t, p)

TreeMap_delitem(t, k) ==
    IF ~is_empty(t) /\ k = key(t, subtree_search(t, root(t), k))
    THEN [t |-> TreeMap_delete(t, subtree_search(t, root(t), k)), out |-> ReturnedNone]
    ELSE [t |-> t, out |-> KeyError]

(***************************************************************************)
(* The reference map: a partial function from keys to values.              *)
(***************************************************************************)
(* LinkedQueue (ch7/linked_queue.py): _head, _tail and _size, and the      *)
(* _Node objects they lead to.  node maps each node alive to its element   *)
(* and its next; a node is named by a number, 0 stands for None, and a     *)
(* node nothing refers to any more is gone.                                *)
(***************************************************************************)
Empty == [kind |-> "Empty", val |-> 0]

Node(e, nxt) == [element |-> e, next |-> nxt]

LinkedQueue_init == [head |-> 0, tail |-> 0, size |-> 0, node |-> [p \in {} |-> 0]]

LinkedQueue_len(q) == q.size

LinkedQueue_is_empty(q) == q.size = 0

\* The nodes from p on along next, as many as there are nodes at most.
RECURSIVE NodesFrom(_, _, _)
NodesFrom(node, p, fuel) ==
    IF p = 0 \/ fuel = 0 THEN <<>>
    ELSE <<p>> \o NodesFrom(node, node[p].next, fuel - 1)

\* The queue with the nodes that _head or _tail still lead to.
Collected(q) ==
    LET fuel == Cardinality(DOMAIN q.node)
        alive == Range(NodesFrom(q.node, q.head, fuel))
                    \cup Range(NodesFrom(q.node, q.tail, fuel))
    IN  [q EXCEPT !.node = [p \in alive |-> q.node[p]]]

LinkedQueue_first(q) ==
    IF LinkedQueue_is_empty(q) THEN Empty
    ELSE IF q.head = 0 THEN AttributeError
    ELSE Returned(q.node[q.head].element)

enqueue(q, e) ==
    LET new == Min((1..(Cardinality(DOMAIN q.node) + 1)) \ DOMAIN q.node)
        made == [p \in DOMAIN q.node \cup {new} |->
                    IF p = new THEN Node(e, 0) ELSE q.node[p]]
    IN  IF LinkedQueue_is_empty(q)
        THEN [q |-> Collected([head |-> new, tail |-> new, size |-> q.size + 1,
                               node |-> made]),
              out |-> ReturnedNone]
        ELSE IF q.tail = 0
        THEN [q |-> q, out |-> AttributeError]
        ELSE [q |-> Collected([head |-> q.head, tail |-> new, size |-> q.size + 1,
                               node |-> [made EXCEPT ![q.tail].next = new]]),
              out |-> ReturnedNone]

\* Mutant of dequeue: _tail is left as it is when the queue becomes empty.
dequeue_keeps_tail(q) ==
    IF LinkedQueue_is_empty(q) THEN [q |-> q, out |-> Empty]
    ELSE IF q.head = 0 THEN [q |-> q, out |-> AttributeError]
    ELSE [q |-> Collected([q EXCEPT !.head = q.node[q.head].next, !.size = q.size - 1]),
          out |-> Returned(q.node[q.head].element)]

dequeue(q) ==
    IF LinkedQueue_is_empty(q) THEN [q |-> q, out |-> Empty]
    ELSE IF q.head = 0 THEN [q |-> q, out |-> AttributeError]
    ELSE LET ans == q.node[q.head].element
             q1 == [q EXCEPT !.head = q.node[q.head].next, !.size = q.size - 1]
             q2 == IF LinkedQueue_is_empty(q1) THEN [q1 EXCEPT !.tail = 0] ELSE q1
         IN  [q |-> Collected(q2), out |-> Returned(ans)]

(***************************************************************************)
EmptyRef == [k \in {} |-> 0]

Ref_getitem(r, k) == IF k \in DOMAIN r THEN Returned(r[k]) ELSE KeyError

Ref_setitem(r, k, v) == [x \in DOMAIN r \cup {k} |-> IF x = k THEN v ELSE r[x]]

Ref_delitem(r, k) ==
    IF k \in DOMAIN r
    THEN [r |-> [x \in DOMAIN r \ {k} |-> r[x]], out |-> ReturnedNone]
    ELSE [r |-> r, out |-> KeyError]

Ref_find_min(r) ==
    IF DOMAIN r = {} THEN ReturnedNone ELSE Pair(Min(DOMAIN r), r[Min(DOMAIN r)])

\* The item with the largest key of S, None when S is empty.
Ref_largest(r, S) == IF S = {} THEN ReturnedNone ELSE Pair(Max(S), r[Max(S)])

\* The item with the smallest key of S, None when S is empty.
Ref_smallest(r, S) == IF S = {} THEN ReturnedNone ELSE Pair(Min(S), r[Min(S)])

Ref_find_le(r, k) == Ref_largest(r, {x \in DOMAIN r : x <= k})

Ref_find_gt(r, k) == Ref_smallest(r, {x \in DOMAIN r : x > k})

Ref_find_ge(r, k) == Ref_smallest(r, {x \in DOMAIN r : x >= k})

(***************************************************************************)
(* The program: it constructs one container (variant), then calls          *)
(* m[k] = v, del m[k] and m[k] on it.  last records the latest call and    *)
(* how it ended on the container and on the reference map.                 *)
(***************************************************************************)
Containers == {"unsorted", "chain", "probe", "sorted", "tree"}

NotCalled == [kind |-> "not called", val |-> 0]

\* Before its first call the program has called nothing.
NoCall == [op |-> "init", key |-> 0, value |-> 0, out |-> NotCalled, ref |-> NotCalled,
           cap |-> 0, len |-> 0, kids |-> 0, lone |-> FALSE]

\* A call that never returns: the program goes no further.
Hung == last.out.kind = "diverges"

InitWith(variants, cap, coefficients) ==
    /\ variant \in variants
    /\ unsorted = <<>>
    /\ \E co \in coefficients :
          /\ chain = IF variant = "chain"
                     THEN HashMapBase_init("chain", cap, DefaultPrime, co[1], co[2])
                     ELSE HashMapBase_init("chain", DefaultCap, DefaultPrime, 1, 0)
          /\ probe = IF variant = "probe"
                     THEN HashMapBase_init("probe", cap, DefaultPrime, co[1], co[2])
                     ELSE HashMapBase_init("probe", DefaultCap, DefaultPrime, 1, 0)
    /\ sorted = <<>>
    /\ tree = EmptyTree
    /\ ref = EmptyRef
    /\ last = NoCall
    /\ queue = LinkedQueue_init
    /\ fifo = <<>>

\* len(m)
Length ==
    CASE variant = "unsorted" -> ULM_len(unsorted)
      [] variant = "chain" -> HashMapBase_len(chain)
      [] variant = "probe" -> HashMapBase_len(probe)
      [] variant = "sorted" -> STM_len(sorted)
      [] OTHER -> LBT_len(tree)

\* list(m): the keys in iteration order.  (Called only while no call hangs.)
Iteration ==
    CASE variant = "unsorted" -> ULM_iter(unsorted)
      [] variant = "chain" -> Chain_iter(chain)
      [] variant = "probe" -> Probe_iter(probe)
      [] variant = "sorted" -> STM_iter(sorted)
      [] OTHER -> TreeMap_iter(tree)

\* len(m._table) of the hash map in use, 0 for the other containers.
Capacity ==
    CASE variant = "chain" -> Len(chain.table)
      [] variant = "probe" -> Len(probe.table)
      [] OTHER -> 0

\* How many children the tree node holding k has (0 when there is none).
Children(k) ==
    IF variant = "tree" /\ ~is_empty(tree) /\ key(tree, find_position(tree, k)) = k
    THEN LET p == find_position(tree, k)
         IN  (IF left(tree, p) # 0 THEN 1 ELSE 0) + (IF right(tree, p) # 0 THEN 1 ELSE 0)
    ELSE 0

\* What last records of a call: the call, how it ended, and the capacity,
\* the length and the number of children of k's node it started from; for a
\* delete also whether k is the lone key of the container, put there by the
\* call before, a set on an empty container.
Call(op, k, v, out, refout) ==
    [op |-> op, key |-> k, value |-> v, out |-> out, ref |-> refout,
     cap |-> Capacity, len |-> Length, kids |-> Children(k),
     lone |-> /\ op = "del"
              /\ last.op = "set" /\ last.key = k
              /\ last.len = 0 /\ last.out = ReturnedNone]

\* m[k] = v
SetItem(k, v) ==
    LET c == HashMapBase_setitem("chain", chain, k, v)
        p == HashMapBase_setitem("probe", probe, k, v)
    IN  /\ ~Hung
        /\ unsorted' = IF variant = "unsorted" THEN ULM_setitem(unsorted, k, v) ELSE unsorted
        /\ chain' = IF variant = "chain" THEN c.m ELSE chain
        /\ probe' = IF variant = "probe" THEN p.m ELSE probe
        /\ sorted' = IF variant = "sorted" THEN STM_setitem(sorted, k, v) ELSE sorted
        /\ tree' = IF variant = "tree" THEN TreeMap_setitem(tree, k, v) ELSE tree
        /\ ref' = Ref_setitem(ref, k, v)
        /\ last' = Call("set", k, v,
                         CASE variant = "chain" -> c.out
                           [] variant = "probe" -> p.out
                           [] OTHER -> ReturnedNone,
                         ReturnedNone)
        /\ UNCHANGED <<variant, queue, fifo>>

\* del m[k]
DelItem(k) ==
    LET u == ULM_delitem(unsorted, k)
        c == HashMapBase_delitem("chain", chain, k)
        p == HashMapBase_delitem("probe", probe, k)
        s == STM_delitem(sorted, k)
        t == TreeMap_delitem(tree, k)
        r == Ref_delitem(ref, k)
    IN  /\ ~Hung
        /\ unsorted' = IF variant = "unsorted" THEN u.table ELSE unsorted
        /\ chain' = IF variant = "chain" THEN c.m ELSE chain
        /\ probe' = IF variant = "probe" THEN p.m ELSE probe
        /\ sorted' = IF variant = "sorted" THEN s.table ELSE sorted
        /\ tree' = IF variant = "tree" THEN t.t ELSE tree
        /\ ref' = r.r
        /\ last' = Call("del", k, 0,
                         CASE variant = "unsorted" -> u.out
                           [] variant = "chain" -> c.out
                           [] variant = "probe" -> p.out
                           [] variant = "sorted" -> s.out
                           [] OTHER -> t.out,
                         r.out)
        /\ UNCHANGED <<variant, queue, fifo>>

\* m[k], as the container in its present state answers it.
Lookup(k) ==
    CASE variant = "unsorted" -> ULM_getitem(unsorted, k)
      [] variant = "chain" -> HashMapBase_getitem("chain", chain, k)
      [] variant = "probe" -> HashMapBase_getitem("probe", probe, k)
      [] variant = "sorted" -> STM_getitem(sorted, k)
      [] OTHER -> TreeMap_getitem(tree, k)

\* m[k]
GetItem(k) ==
    /\ ~Hung
    /\ UNCHANGED <<variant, unsorted, chain, probe, sorted, tree, ref, queue, fifo>>
    /\ last' = Call("get", k, 0, Lookup(k), Ref_getitem(ref, k))

\* m.find_min(), as the sorted map in its present state answers it.
FindMinOf ==
    IF variant = "sorted" THEN STM_find_min(sorted) ELSE TreeMap_find_min(tree)

\* m.find_min()
FindMin ==
    /\ variant \in {"sorted", "tree"}
    /\ UNCHANGED <<variant, unsorted, chain, probe, sorted, tree, ref, queue, fifo>>
    /\ last' = Call("find_min", 0, 0, FindMinOf, Ref_find_min(ref))

\* m.find_le(k), a method of SortedTableMap only
FindLe(k) ==
    /\ variant = "sorted"
    /\ UNCHANGED <<variant, unsorted, chain, probe, sorted, tree, ref, queue, fifo>>
    /\ last' = Call("find_le", k, 0, STM_find_le(sorted, k), Ref_find_le(ref, k))

\* m.find_gt(k), a method of SortedTableMap only
FindGt(k) ==
    /\ variant = "sorted"
    /\ UNCHANGED <<variant, unsorted, chain, probe, sorted, tree, ref, queue, fifo>>
    /\ last' = Call("find_gt", k, 0, STM_find_gt(sorted, k), Ref_find_gt(ref, k))

\* m.find_ge(k)
FindGe(k) ==
    /\ variant \in {"sorted", "tree"}
    /\ UNCHANGED <<variant, unsorted, chain, probe, sorted, tree, ref, queue, fifo>>
    /\ last' = Call("find_ge", k, 0,
                     IF variant = "sorted"
                     THEN STM_find_ge(sorted, k)
                     ELSE TreeMap_find_ge(tree, k),
                     Ref_find_ge(ref, k))

\* What last records of a call on the queue, with the length it started from.
QueueCall(op, e, out, refout) ==
    [op |-> op, key |-> 0, value |-> e, out |-> out, ref |-> refout,
     cap |-> 0, len |-> LinkedQueue_len(queue), kids |-> 0, lone |-> FALSE]

\* q.enqueue(e)
Enqueue(e) ==
    LET r == enqueue(queue, e)
    IN  /\ variant = "queue"
        /\ LinkedQueue_len(queue) < MaxQueue
        /\ queue' = r.q
        /\ fifo' = Append(fifo, e)
        /\ last' = QueueCall("enqueue", e, r.out, ReturnedNone)
        /\ UNCHANGED <<variant, unsorted, chain, probe, sorted, tree, ref>>

\* q.dequeue()
Dequeue ==
    LET r == dequeue(queue)
    IN  /\ variant = "queue"
        /\ queue' = r.q
        /\ fifo' = IF fifo = <<>> THEN fifo ELSE Tail(fifo)
        /\ last' = QueueCall("dequeue", 0, r.out,
                              IF fifo = <<>> THEN Empty ELSE Returned(Head(fifo)))
        /\ UNCHANGED <<variant, unsorted, chain, probe, sorted, tree, ref>>

\* q.first()
First ==
    /\ variant = "queue"
    /\ last' = QueueCall("first", 0, LinkedQueue_first(queue),
                          IF fifo = <<>> THEN Empty ELSE Returned(Head(fifo)))
    /\ UNCHANGED <<variant, unsorted, chain, probe, sorted, tree, ref, queue, fifo>>

(***************************************************************************)
(* Spec: every variant, the hash maps constructed with SmallCap slots so   *)
(* that resizes (also nested ones) happen with few keys.                   *)
(***************************************************************************)
Keys == 0..MaxKey

\* The containers store and copy values and never look into them: two values
\* are what it takes to tell a value that was overwritten from a stale one.
Values == {1, 2}

\* The hash coefficients <<scale, shift>> drawn at construction (scale in
\* 1..p-1, shift in 0..p-1): one pair that spreads the keys and one that sends
\* every key of a table of 9 slots to its last slot.
Coefficients == {<<1, 0>>, <<9, 8>>}

Init == InitWith(Containers, SmallCap, Coefficients)

Set == \E k \in Keys, v \in Values : SetItem(k, v)
Del == \E k \in Keys : DelItem(k)
Get == \E k \in Keys : GetItem(k)

Next == Set \/ Del \/ Get

Spec == Init /\ [][Next]_vars

(***************************************************************************)
(* SpecDefault: ChainHashMap() and ProbeHashMap() as the tests construct   *)
(* them, with the default capacity, and enough keys to make them grow.     *)
(***************************************************************************)
KeysDefault == 0..MaxKeyDefault

CoefficientsDefault == {<<1, 0>>}

InitDefault == InitWith({"chain", "probe"}, DefaultCap, CoefficientsDefault)

SetDefault == \E k \in KeysDefault : SetItem(k, 1)
DelDefault == \E k \in KeysDefault : DelItem(k)
GetDefault == \E k \in KeysDefault : GetItem(k)

NextDefault == SetDefault \/ DelDefault \/ GetDefault

SpecDefault == InitDefault /\ [][NextDefault]_vars

(***************************************************************************)
(* SpecSorted: SortedTableMap and TreeMap, with one key more than Spec.    *)
(***************************************************************************)
KeysSorted == 0..MaxKeySorted

InitSorted == InitWith({"sorted", "tree"}, DefaultCap, {<<1, 0>>})

SetSorted == \E k \in KeysSorted, v \in Values : SetItem(k, v)
DelSorted == \E k \in KeysSorted : DelItem(k)
GetSorted == \E k \in KeysSorted : GetItem(k)

NextSorted == SetSorted \/ DelSorted \/ GetSorted

SpecSorted == InitSorted /\ [][NextSorted]_vars

(***************************************************************************)
(* SpecFinders: the two sorted maps, with sets, deletes and the queries    *)
(* find_min, find_le, find_gt and find_ge, for keys in the map and not.    *)
(***************************************************************************)
InitFinders == InitWith({"sorted", "tree"}, DefaultCap, {<<1, 0>>})

SetFinders == \E k \in KeysSorted, v \in Values : SetItem(k, v)
DelFinders == \E k \in KeysSorted : DelItem(k)
FindMinFinders == FindMin
FindLeFinders == \E k \in KeysSorted : FindLe(k)
FindGtFinders == \E k \in KeysSorted : FindGt(k)
FindGeFinders == \E k \in KeysSorted : FindGe(k)

NextFinders ==
    \/ SetFinders \/ DelFinders
    \/ FindMinFinders \/ FindLeFinders \/ FindGtFinders \/ FindGeFinders

SpecFinders == InitFinders /\ [][NextFinders]_vars

(***************************************************************************)
(* SpecQueue: a LinkedQueue with enqueue, dequeue and first, the queue     *)
(* never longer than MaxQueue.                                             *)
(***************************************************************************)
InitQueue == InitWith({"queue"}, DefaultCap, {<<1, 0>>})

EnqueueQueue == \E e \in Values : Enqueue(e)

NextQueue == EnqueueQueue \/ Dequeue \/ First

SpecQueue == InitQueue /\ [][NextQueue]_vars

(***************************************************************************)
(* What the storage of the container in use holds, read off the storage    *)
(* itself and not through the container's methods.                         *)
(***************************************************************************)
\* The positions of a tree in in-order, by the shape of the tree alone.
RECURSIVE InOrder(_, _)
InOrder(t, p) ==
    IF p \notin DOMAIN t.node THEN <<>>
    ELSE InOrder(t, 2 * p) \o <<t.node[p]>> \o InOrder(t, 2 * p + 1)

\* The items of a ChainHashMap, bucket after bucket.
RECURSIVE ChainItems(_, _)
ChainItems(table, i) ==
    IF i > Len(table) THEN <<>> ELSE table[i].table \o ChainItems(table, i + 1)

\* The items of a ProbeHashMap, slot after slot.
RECURSIVE ProbeItems(_, _)
ProbeItems(table, i) ==
    IF i > Len(table) THEN <<>>
    ELSE (IF table[i].tag = "Item" THEN <<Item(table[i].key, table[i].value)>> ELSE <<>>)
         \o ProbeItems(table, i + 1)

\* Every item the container stores, in storage order.
Entries ==
    CASE variant = "unsorted" -> unsorted
      [] variant = "chain" -> ChainItems(chain.table, 1)
      [] variant = "probe" -> ProbeItems(probe.table, 1)
      [] variant = "sorted" -> sorted
      [] OTHER -> InOrder(tree, 1)

\* The number of stored items with key k.
CountKey(k) == Cardinality({i \in 1..Len(Entries) : Entries[i].key = k})

StrictlyAscending(ks) == \A i \in 1..(Len(ks) - 1) : ks[i] < ks[i + 1]

AllKeys == 0..(MaxKey + MaxKeyDefault + MaxKeySorted)

HashVariant == variant \in {"chain", "probe"}

(***************************************************************************)
(* C1  Refinement: on every variant each get ends as it does on the        *)
(* reference map (the same value, or KeyError), len() is the size of the   *)
(* reference map's domain, and iteration produces exactly its keys.        *)
(*                                                                         *)
(* Violated: a ProbeHashMap whose slots are all tombstones or items never  *)
(* returns from a call with an absent key (C9).                            *)
(***************************************************************************)
C1_RefinesReference ==
    /\ last.op = "get" => last.out = last.ref
    /\ last.out.kind # "diverges"
    /\ Length = Cardinality(DOMAIN ref)
    /\ Range(Iteration) = DOMAIN ref

\* The same equivalence, for every call that returns: the hang of C9 is the
\* only way a container and the reference map come apart.
RefinesReferenceUnlessHung ==
    ~Hung =>
        /\ last.op \in {"get", "set", "del"} => last.out = last.ref
        /\ Length = Cardinality(DOMAIN ref)
        /\ Range(Iteration) = DOMAIN ref

(***************************************************************************)
(* C2  Round trip: once m[k] = v has returned, m[k] returns v, on every    *)
(* variant, also when the set made the hash table grow, reused a tombstone *)
(* or overwrote a value.                                                   *)
(***************************************************************************)
C2_RoundTrip ==
    (last.op = "set" /\ last.out = ReturnedNone) => Lookup(last.key) = Returned(last.value)

\* A set on a ProbeHashMap that made the table grow, read back.
C2_Witness ==
    /\ variant = "probe"
    /\ last.op = "set" /\ last.out = ReturnedNone
    /\ last.cap # Capacity
    /\ Lookup(last.key) = Returned(last.value)

\* A set on a ProbeHashMap with a tombstone in the table that overwrote the
\* value of a key (the length did not change).
C2_WitnessOverwrite ==
    /\ variant = "probe"
    /\ last.op = "set" /\ last.out = ReturnedNone
    /\ last.len = Length
    /\ \E i \in 1..Len(probe.table) : probe.table[i].tag = "AVAIL"
    /\ \E i \in 1..Len(probe.table) :
          probe.table[i] = ItemSlot(last.key, last.value)

(***************************************************************************)
(* C3  Uniqueness: the storage of every variant holds at most one item     *)
(* per key, after any sets and deletes.                                    *)
(***************************************************************************)
C3_UniqueKeys == \A k \in AllKeys : CountKey(k) <= 1

\* The slots from the home slot of k up to the slot before s, cyclically.
ProbePath(m, k, s) ==
    LET cap == Len(m.table)
        d == (s - hash_function(m, k) + cap) % cap
    IN  {(hash_function(m, k) + i) % cap : i \in 0..(d - 1)}

\* A set on a ProbeHashMap of a key that lives beyond a tombstone of its
\* probe path: it overwrote the item (the length did not change) and put no
\* second copy into the tombstone.
C3_Witness ==
    /\ variant = "probe"
    /\ last.op = "set" /\ last.out = ReturnedNone /\ last.len = Length
    /\ \E s \in 0..(Len(probe.table) - 1) :
          /\ probe.table[s + 1] = ItemSlot(last.key, last.value)
          /\ \E j \in ProbePath(probe, last.key, s) : probe.table[j + 1].tag = "AVAIL"

(***************************************************************************)
(* C4  A get or a delete of an absent key ends in KeyError and leaves the  *)
(* container as it was: its items, their layout and its length.            *)
(*                                                                         *)
(* Violated: on a ProbeHashMap without an empty slot the call does not end *)
(* at all (C9).                                                            *)
(***************************************************************************)
C4_AbsentKeyRaises ==
    [][(last'.op \in {"get", "del"} /\ CountKey(last'.key) = 0)
          => /\ last'.out = KeyError
             /\ UNCHANGED <<unsorted, chain, probe, sorted, tree>>]_vars

\* The same, for every call that returns.
AbsentKeyRaisesUnlessHung ==
    [][(last'.op \in {"get", "del"} /\ CountKey(last'.key) = 0
            /\ last'.out.kind # "diverges")
          => /\ last'.out = KeyError
             /\ UNCHANGED <<unsorted, chain, probe, sorted, tree>>]_vars

(***************************************************************************)
(* C5  Order: iterating a SortedTableMap or a TreeMap yields every stored  *)
(* key once, in strictly ascending order, and the table of a               *)
(* SortedTableMap is strictly ascending by key.                            *)
(***************************************************************************)
C5_AscendingIteration ==
    variant \in {"sorted", "tree"} =>
        /\ StrictlyAscending(Iteration)
        /\ Len(Iteration) = Len(Entries)
        /\ Range(Iteration) = Range(KeysOf(Entries))
        /\ variant = "sorted" => StrictlyAscending(KeysOf(sorted))

\* A TreeMap of three keys or more left by the delete of a node with two
\* children.
C5_Witness ==
    /\ variant = "tree"
    /\ last.op = "del" /\ last.out = ReturnedNone /\ last.kids = 2
    /\ Len(Iteration) >= 3

(***************************************************************************)
(* C6  Range: find_range(start, stop) of a SortedTableMap and of a TreeMap *)
(* yields exactly the (key, value) pairs of the map with                   *)
(* start <= key < stop, ascending, for every start and stop that is a key  *)
(* (in the map or not) or None; None leaves that side unbounded.           *)
(***************************************************************************)
RangeArgs == {NoneArg} \cup {KeyArg(k) : k \in 0..(MaxKeySorted + 1)}

FindRange(start, stop) ==
    IF variant = "sorted"
    THEN STM_find_range(sorted, start, stop)
    ELSE TreeMap_find_range(tree, start, stop)

\* The items of the reference map with a key in S, ascending.
RECURSIVE RefItems(_)
RefItems(S) ==
    IF S = {} THEN <<>>
    ELSE <<Item(Min(S), ref[Min(S)])>> \o RefItems(S \ {Min(S)})

InRange(k, start, stop) ==
    /\ start.isNone \/ start.key <= k
    /\ stop.isNone \/ k < stop.key

C6_FindRange ==
    variant \in {"sorted", "tree"} =>
        \A start \in RangeArgs, stop \in RangeArgs :
            FindRange(start, stop) = RefItems({k \in DOMAIN ref : InRange(k, start, stop)})

\* A TreeMap asked for a range from an absent key to a present one that holds
\* some of its items and not all.
C6_Witness ==
    /\ variant = "tree"
    /\ \E a \in 0..MaxKeySorted, b \in DOMAIN ref :
          /\ a \notin DOMAIN ref
          /\ Len(FindRange(KeyArg(a), KeyArg(b))) >= 1
          /\ \E k \in DOMAIN ref : k < a

(***************************************************************************)
(* C7  Load factor: when a set on a ChainHashMap or a ProbeHashMap made    *)
(* with the default capacity has returned, n <= capacity / 2.              *)
(***************************************************************************)
C7_LoadFactor ==
    (HashVariant /\ last.op = "set" /\ last.out = ReturnedNone) => 2 * Length <= Capacity

\* A set that made a ProbeHashMap grow from the default capacity.
C7_Witness ==
    /\ variant = "probe"
    /\ last.op = "set" /\ last.out = ReturnedNone
    /\ last.cap = DefaultCap /\ Capacity = 2 * DefaultCap - 1

(***************************************************************************)
(* C8  Tombstone integrity: in a ProbeHashMap every key of the map is      *)
(* still found, with its value, after other keys were deleted, also when   *)
(* its probe path runs over their slots, and after later sets.             *)
(***************************************************************************)
C8_TombstoneIntegrity ==
    (variant = "probe" /\ ~Hung) =>
        \A k2 \in DOMAIN ref : HashMapBase_getitem("probe", probe, k2) = Returned(ref[k2])

\* A delete has just left a tombstone, and a key of the map lives beyond a
\* tombstone of its probe path.
C8_Witness ==
    /\ variant = "probe"
    /\ last.op = "del" /\ last.out = ReturnedNone
    /\ \E s \in 0..(Len(probe.table) - 1) :
          /\ probe.table[s + 1].tag = "Item"
          /\ probe.table[s + 1].key \in DOMAIN ref
          /\ \E j \in ProbePath(probe, probe.table[s + 1].key, s) :
                probe.table[j + 1].tag = "AVAIL"

(***************************************************************************)
(* C9  Termination: every call on a ProbeHashMap returns, because every    *)
(* reachable table keeps a slot that is None.                              *)
(*                                                                         *)
(* Violated: a delete leaves a tombstone, n counts items only, and so the  *)
(* table fills with tombstones without ever growing.                       *)
(***************************************************************************)
C9_ProbeTerminates ==
    variant = "probe" =>
        /\ ~Hung
        /\ \E i \in 1..Len(probe.table) : probe.table[i].tag = "None"

(***************************************************************************)
(* C10  Delete of a TreeMap node with two children: the tree stays a       *)
(* binary search tree, its items in order are the items before without the *)
(* deleted key, the item of the in-order predecessor now stands at the     *)
(* deleted key's position, and the node removed is the predecessor's,      *)
(* which had no right child.                                               *)
(***************************************************************************)
IsBST(t) ==
    \A p \in DOMAIN t.node, q \in DOMAIN t.node :
        /\ in_subtree(q, 2 * p) => t.node[q].key < t.node[p].key
        /\ in_subtree(q, 2 * p + 1) => t.node[q].key > t.node[p].key

\* The position of the tree that holds key k.
PositionOf(t, k) == CHOOSE p \in DOMAIN t.node : t.node[p].key = k

\* The largest key of the tree below k.
Predecessor(t, k) ==
    CHOOSE x \in {t.node[p].key : p \in DOMAIN t.node} :
        /\ x < k
        /\ \A p \in DOMAIN t.node : t.node[p].key < k => t.node[p].key <= x

C10_TwoChildrenDelete ==
    [][(variant = "tree" /\ last'.op = "del" /\ last'.kids = 2) =>
          LET k == last'.key
              p == PositionOf(tree, k)
              q == PositionOf(tree, Predecessor(tree, k))
          IN  /\ last'.out = ReturnedNone
              /\ IsBST(tree')
              /\ InOrder(tree', 1) = SelectSeq(InOrder(tree, 1), LAMBDA e : e.key # k)
              /\ LBT_len(tree') = LBT_len(tree) - 1
              /\ tree'.node[p] = tree.node[q]
              /\ 2 * q + 1 \notin DOMAIN tree.node
              /\ Cardinality(DOMAIN tree'.node) = Cardinality(DOMAIN tree.node) - 1
              /\ \A x \in DOMAIN tree.node :
                    (x # p /\ ~in_subtree(x, q)) =>
                        (x \in DOMAIN tree'.node /\ tree'.node[x] = tree.node[x])]_vars

\* The delete of a node with two children has returned and left a tree of
\* three keys or more.
C10_Witness ==
    /\ variant = "tree"
    /\ last.op = "del" /\ last.out = ReturnedNone /\ last.kids = 2
    /\ LBT_len(tree) >= 3 /\ IsBST(tree)

(***************************************************************************)
(* C11  find_gt(k) of a SortedTableMap returns the item with the smallest  *)
(* key above k, None when no key of the map is above k, for k in the map   *)
(* or not; it never returns the item of k and never ends in an error.      *)
(*                                                                         *)
(* Violated: whenever the map holds a key >= k the call compares an item   *)
(* with the key k and ends in AttributeError.                              *)
(***************************************************************************)
C11_FindGt == last.op = "find_gt" => last.out = last.ref

\* What find_gt does get right: with no key >= k in the map it returns None.
FindGtPastTheEnd ==
    (last.op = "find_gt" /\ \A x \in DOMAIN ref : x < last.key) => last.out = ReturnedNone

(***************************************************************************)
(* C12  find_le(k) of a SortedTableMap returns the item with the largest   *)
(* key <= k, the item of k itself when k is in the map (also when k is the *)
(* smallest key), and None only when no key of the map is <= k.            *)
(*                                                                         *)
(* Violated: for k the smallest key of the map find_index is 0 and the     *)
(* call returns None.                                                      *)
(***************************************************************************)
C12_FindLe == last.op = "find_le" => last.out = last.ref

\* What find_le does get right: every k but the smallest key of the map.
FindLeButSmallest ==
    (last.op = "find_le" /\ (DOMAIN ref = {} \/ last.key # Min(DOMAIN ref)))
        => last.out = last.ref

(***************************************************************************)
(* C13  find_ge(k) of a TreeMap returns the item with the smallest key     *)
(* >= k, and None, not an error, when there is no such key: the map is     *)
(* empty or k is above every key.                                          *)
(*                                                                         *)
(* Violated: on a map that is not empty, with k above every key, after()   *)
(* gives None and the call ends in AttributeError.                         *)
(***************************************************************************)
C13_FindGe == (variant = "tree" /\ last.op = "find_ge") => last.out = last.ref

\* What find_ge does get right on both sorted maps: a key >= k exists, or
\* the map is empty.
FindGeWithinTheMap ==
    (last.op = "find_ge"
        /\ (variant = "sorted" \/ DOMAIN ref = {} \/ \E x \in DOMAIN ref : x >= last.key))
        => last.out = last.ref

(***************************************************************************)
(* C14  A set of a key on an empty container and then the delete of that   *)
(* key leave, on every variant, a container that is empty to its caller:   *)
(* the delete returns, len() is 0, iteration yields nothing, a get of any  *)
(* key ends in KeyError and find_min() of the sorted maps is None; on a    *)
(* ProbeHashMap also with the tombstone the delete leaves.                 *)
(*                                                                         *)
(* Violated: on an empty ProbeHashMap whose slots but one are tombstones   *)
(* the set takes the last None slot and the delete makes it a tombstone;   *)
(* a get then never returns (C9).                                          *)
(***************************************************************************)
EmptyToCaller ==
    /\ Length = 0
    /\ Iteration = <<>>
    /\ \A k \in AllKeys : Lookup(k) = KeyError
    /\ variant \in {"sorted", "tree"} => FindMinOf = ReturnedNone

C14_InsertThenDelete ==
    (last.op = "del" /\ last.lone) => (last.out = ReturnedNone /\ EmptyToCaller)

\* The same, for every container but a ProbeHashMap left without a None slot.
InsertThenDeleteUnlessFull ==
    (last.op = "del" /\ last.lone
        /\ (variant = "probe" => \E i \in 1..Len(probe.table) : probe.table[i].tag = "None"))
        => (last.out = ReturnedNone /\ EmptyToCaller)

\* The set and the delete on a ProbeHashMap that was never used before: the
\* table holds one tombstone and nothing else.
InsertThenDeleteFresh ==
    /\ variant = "probe" /\ last.op = "del" /\ last.lone
    /\ Cardinality({i \in 1..Len(probe.table) : probe.table[i].tag = "AVAIL"}) = 1
    /\ EmptyToCaller

(***************************************************************************)
(* C15  Probe chain: in a ProbeHashMap every key of the map is in exactly  *)
(* one slot that holds an item, and no slot from the key's home slot up to *)
(* that slot (going to index + 1 modulo the capacity) is None; sets,       *)
(* deletes, the reuse of tombstones and resizes keep it so.  (A call that  *)
(* never returns changes nothing of the table, so the states it leaves are *)
(* covered by the state it started from.)                                  *)
(***************************************************************************)
SlotsOf(k) ==
    {s \in 0..(Len(probe.table) - 1) :
        probe.table[s + 1].tag = "Item" /\ probe.table[s + 1].key = k}

C15_ProbeChain ==
    (variant = "probe" /\ ~Hung) =>
        \A k \in DOMAIN ref :
            /\ Cardinality(SlotsOf(k)) = 1
            /\ \A s \in SlotsOf(k) :
                  \A j \in ProbePath(probe, k, s) : probe.table[j + 1].tag # "None"

\* A set has just made the table grow, and in the new table a key of the
\* map lives away from its home slot.
C15_Witness ==
    /\ variant = "probe"
    /\ last.op = "set" /\ last.out = ReturnedNone /\ Capacity > last.cap
    /\ \E k \in DOMAIN ref : \E s \in SlotsOf(k) : ProbePath(probe, k, s) # {}

\* A set has just put a new key into a tombstone of its probe path, with
\* another key of the map living beyond a tombstone.
ProbeChainTombstoneReuse ==
    /\ variant = "probe"
    /\ last.op = "set" /\ last.out = ReturnedNone /\ Length = last.len + 1
    /\ Capacity = last.cap
    /\ Cardinality({i \in 1..Len(probe.table) : probe.table[i].tag = "AVAIL"}) >= 1
    /\ \E k \in DOMAIN ref : \E s \in SlotsOf(k) :
          \E j \in ProbePath(probe, k, s) : probe.table[j + 1].tag = "AVAIL"

(***************************************************************************)
(* C16  _find_slot(j, k) of a ProbeHashMap returns (True, s), s the slot   *)
(* of k, when k is met on the probe path from j before a None slot, and    *)
(* otherwise (False, a), a the first slot of that path that is a tombstone *)
(* or None.  So a set of a new key writes one slot and no other: the first *)
(* tombstone of the path when there is one, else the None slot that ends   *)
(* the path.                                                               *)
(*                                                                         *)
(* Violated: in a table without a None slot the call does not return for a *)
(* key that is not in the table (C9).                                      *)
(***************************************************************************)
\* The probe path from j: offsets 0, 1, ... up to the first None slot, the
\* whole table when there is none.
PathEnd(table, j) ==
    LET nones == {i \in 0..(Len(table) - 1) : table[((j + i) % Len(table)) + 1].tag = "None"}
    IN  IF nones = {} THEN Len(table) - 1 ELSE Min(nones)

\* What _find_slot(j, k) is to return, read off the table.
FindSlotResult(table, j, k) ==
    LET cap == Len(table)
        path == 0..PathEnd(table, j)
        hits == {i \in path : table[((j + i) % cap) + 1].tag = "Item"
                                /\ table[((j + i) % cap) + 1].key = k}
        avail == {i \in path : table[((j + i) % cap) + 1].tag # "Item"}
    IN  IF hits # {}
        THEN [found |-> TRUE, slot |-> (j + Min(hits)) % cap, diverges |-> FALSE]
        ELSE IF avail # {}
        THEN [found |-> FALSE, slot |-> (j + Min(avail)) % cap, diverges |-> FALSE]
        ELSE [found |-> FALSE, slot |-> -1, diverges |-> FALSE]

\* _bucket_setitem of the new key k wrote the slot _find_slot is to return,
\* and nothing else of the table.
WritesOneSlot(k, v) ==
    LET j == hash_function(probe, k)
        a == FindSlotResult(probe.table, j, k).slot
        r == Probe_bucket_setitem(probe, j, k, v)
    IN  /\ r.out = ReturnedNone
        /\ a >= 0
        /\ r.m.table = [probe.table EXCEPT ![a + 1] = ItemSlot(k, v)]
        /\ r.m.n = probe.n + 1

FindSlotAsSpecified ==
    /\ \A k \in AllKeys, j \in 0..(Len(probe.table) - 1) :
          find_slot(probe.table, j, k) = FindSlotResult(probe.table, j, k)
    /\ \A k \in AllKeys \ DOMAIN ref : WritesOneSlot(k, 1)

C16_FindSlot == variant = "probe" => FindSlotAsSpecified

\* The same, for every table that has a None slot.
FindSlotUnlessFull ==
    (variant = "probe" /\ \E i \in 1..Len(probe.table) : probe.table[i].tag = "None")
        => FindSlotAsSpecified

\* A table with a None slot where the set of a new key goes into a
\* tombstone that lies before the None slot ending its probe path.
FindSlotReusesTombstone ==
    /\ variant = "probe"
    /\ \E i \in 1..Len(probe.table) : probe.table[i].tag = "None"
    /\ \E k \in AllKeys \ DOMAIN ref :
          LET j == hash_function(probe, k)
              r == find_slot(probe.table, j, k)
          IN  /\ ~r.found /\ ~r.diverges
              /\ probe.table[r.slot + 1].tag = "AVAIL"
              /\ PathEnd(probe.table, j) >= 2

(***************************************************************************)
(* C17  Resize, on both hash maps: the capacity changes only in a set      *)
(* whose new item brings n above half the capacity, never in a get or a    *)
(* delete; the resize leaves the items (keys and values) and n as the      *)
(* insert made them, leaves no tombstone in the new table, and scale,      *)
(* shift and prime are those the map was constructed with.                 *)
(***************************************************************************)
\* The hash map in use and the items its table holds.
HashMapInUse == IF variant = "chain" THEN chain ELSE probe

HashEntries == Range(Entries)

Tombstones(m) == {i \in 1..Len(m.table) : m.table[i].tag = "AVAIL"}

C17_ResizeFrame ==
    [][HashVariant =>
          LET m == HashMapInUse
              m2 == HashMapInUse'
          IN  /\ m2.scale = m.scale /\ m2.shift = m.shift /\ m2.prime = m.prime
              /\ last'.op \in {"get", "del"} => Len(m2.table) = Len(m.table)
              /\ Len(m2.table) # Len(m.table) =>
                    /\ last'.op = "set" /\ last'.out = ReturnedNone
                    /\ \A e \in HashEntries : e.key # last'.key
                    /\ m.n + 1 > Len(m.table) \div 2
                    /\ Len(m2.table) >= 2 * Len(m.table) - 1
                    /\ HashEntries' = HashEntries \cup {Item(last'.key, last'.value)}
                    /\ m2.n = m.n + 1
                    /\ variant = "probe" => Tombstones(m2) = {}]_vars

\* A set has made a ProbeHashMap grow twice, the second time while the
\* first resize was putting the items back: from SmallCap slots to more than
\* 2 * SmallCap - 1.
C17_Witness ==
    /\ variant = "probe"
    /\ last.op = "set" /\ last.out = ReturnedNone
    /\ last.cap = SmallCap /\ Capacity > 2 * SmallCap - 1
    /\ Length = last.len + 1 /\ Length >= 2

(***************************************************************************)
(* C18  Live count: on a ChainHashMap and a ProbeHashMap n, which len()    *)
(* returns, is the number of items stored (the sizes of the buckets added  *)
(* up; the slots that are neither None nor a tombstone) and is never       *)
(* negative; a set adds 1 to n when the key is new and leaves n alone when *)
(* it overwrites; a delete that returns takes 1 off.                       *)
(***************************************************************************)
C18_LiveCount ==
    /\ [](HashVariant => (Length = Len(Entries) /\ Length >= 0))
    /\ [][(HashVariant /\ last'.out = ReturnedNone) =>
            /\ (last'.op = "set" /\ CountKey(last'.key) = 0) => Length' = Length + 1
            /\ (last'.op = "set" /\ CountKey(last'.key) = 1) => Length' = Length
            /\ last'.op = "del" => Length' = Length - 1]_vars

\* On a ChainHashMap a set has overwritten the value of a key that shares
\* its bucket with another key: n stayed as it was.
C18_Witness ==
    /\ variant = "chain"
    /\ last.op = "set" /\ last.out = ReturnedNone /\ Length = last.len
    /\ \E i \in 1..Len(chain.table) :
          /\ Len(chain.table[i].table) >= 2
          /\ \E x \in 1..Len(chain.table[i].table) :
                chain.table[i].table[x] = Item(last.key, last.value)

\* On a ProbeHashMap a delete has returned and left a tombstone: n went
\* down by one and the items left are as many.
LiveCountAfterDelete ==
    /\ variant = "probe"
    /\ last.op = "del" /\ last.out = ReturnedNone
    /\ Length = last.len - 1 /\ Length >= 1
    /\ Tombstones(probe) # {}

(***************************************************************************)
(* C19  Binary search tree: after any sets and deletes on a TreeMap (of    *)
(* leaves, of nodes with one child and with two, of the root) every key in *)
(* the left subtree of a node is below the node's key and every key in its *)
(* right subtree is above.  A set of a new key adds one leaf and changes   *)
(* nothing else: the left child of the last node of the search path when   *)
(* the key is smaller, the right child otherwise.  A set of a key of the   *)
(* map changes the value of its node and nothing else.                     *)
(***************************************************************************)
TreeKeys(t) == {t.node[p].key : p \in DOMAIN t.node}

\* Position q is a new leaf of t2 holding e, and t2 is t otherwise.
AddsLeaf(t, t2, q, e) ==
    /\ q \notin DOMAIN t.node
    /\ DOMAIN t2.node = DOMAIN t.node \cup {q}
    /\ t2.node[q] = e
    /\ \A x \in DOMAIN t.node : t2.node[x] = t.node[x]
    /\ left(t2, q) = 0 /\ right(t2, q) = 0
    /\ LBT_len(t2) = LBT_len(t) + 1

C19_SearchTree ==
    /\ [](variant = "tree" => IsBST(tree))
    /\ [][(variant = "tree" /\ last'.op = "set") =>
            LET k == last'.key
                e == Item(last'.key, last'.value)
            IN  /\ last'.out = ReturnedNone
                /\ (k \notin TreeKeys(tree) /\ is_empty(tree)) =>
                       AddsLeaf(tree, tree', 1, e) /\ root(tree') = 1
                /\ (k \notin TreeKeys(tree) /\ ~is_empty(tree)) =>
                       LET p == find_position(tree, k)
                       IN  /\ k < key(tree, p) => AddsLeaf(tree, tree', 2 * p, e)
                           /\ k > key(tree, p) => AddsLeaf(tree, tree', 2 * p + 1, e)
                           /\ root(tree') = root(tree)
                /\ k \in TreeKeys(tree) =>
                       /\ tree' = [tree EXCEPT !.node[PositionOf(tree, k)].value = last'.value]
                       /\ key(tree', PositionOf(tree, k)) = k]_vars

\* A set has added a leaf three levels below the root.
C19_Witness ==
    /\ variant = "tree"
    /\ last.op = "set" /\ last.out = ReturnedNone /\ Length = last.len + 1
    /\ \E q \in DOMAIN tree.node :
          /\ q >= 8
          /\ tree.node[q] = Item(last.key, last.value)
          /\ left(tree, q) = 0 /\ right(tree, q) = 0

\* A delete has removed a node with one child whose key was below or above
\* every key left, and the root of the tree left has two children.
SearchTreeAfterRootDelete ==
    /\ variant = "tree"
    /\ last.op = "del" /\ last.out = ReturnedNone /\ last.kids = 1
    /\ LBT_len(tree) >= 2
    /\ \/ \A x \in TreeKeys(tree) : last.key < x
       \/ \A x \in TreeKeys(tree) : last.key > x
    /\ left(tree, root(tree)) # 0 /\ right(tree, root(tree)) # 0

(***************************************************************************)
(* C20  In every TreeMap and for every position p: after(p) is the         *)
(* position of the smallest key above p's key, None exactly when p is      *)
(* last(); before(p) is the position of the largest key below p's key,     *)
(* None exactly when p is first(); before(after(p)) = p when after(p) is   *)
(* not None; and the walk along after() from first() visits every node     *)
(* once and then ends with None.                                           *)
(***************************************************************************)
\* The position of the key of S nearest to the key of p: the smallest of S
\* when up is TRUE, the largest otherwise; 0 (None) when S is empty.
Neighbour(t, S, up) ==
    IF S = {} THEN 0 ELSE PositionOf(t, IF up THEN Min(S) ELSE Max(S))

\* The positions the walk along after() visits from p on.
RECURSIVE AfterWalk(_, _, _)
AfterWalk(t, p, fuel) ==
    IF p = 0 \/ fuel = 0 THEN <<>> ELSE <<p>> \o AfterWalk(t, after(t, p), fuel - 1)

C20_BeforeAfter ==
    variant = "tree" =>
        /\ \A p \in DOMAIN tree.node :
              /\ after(tree, p) = Neighbour(tree, {x \in TreeKeys(tree) : x > key(tree, p)}, TRUE)
              /\ before(tree, p) = Neighbour(tree, {x \in TreeKeys(tree) : x < key(tree, p)}, FALSE)
              /\ after(tree, p) = 0 <=> p = last_position(tree)
              /\ before(tree, p) = 0 <=> p = first(tree)
              /\ after(tree, p) # 0 => before(tree, after(tree, p)) = p
        /\ LET w == AfterWalk(tree, first(tree), LBT_len(tree) + 1)
           IN  /\ Len(w) = LBT_len(tree)
               /\ Range(w) = DOMAIN tree.node

\* A tree where after() goes down (to the first position of a right subtree
\* that has a left child) and goes up more than one level, and where
\* before() does both as well.
C20_Witness ==
    /\ variant = "tree"
    /\ \E p \in DOMAIN tree.node :
          right(tree, p) # 0 /\ left(tree, right(tree, p)) # 0
    /\ \E q \in DOMAIN tree.node :
          /\ right(tree, q) = 0
          /\ after(tree, q) # 0 /\ after(tree, q) # parent(tree, q)
    /\ \E q \in DOMAIN tree.node :
          left(tree, q) # 0 /\ before(tree, q) # left(tree, q)

(***************************************************************************)
(* C21  Storage order of an UnsortedListMap: a set of a key of the map     *)
(* replaces the value where the key stands and moves nothing, a set of a   *)
(* new key appends it at the end, and a delete removes that key alone and  *)
(* keeps the others in their order.  Step after step from the empty map,   *)
(* this makes iteration yield the keys of the map in the order each was    *)
(* set since it was last absent.                                           *)
(***************************************************************************)
C21_StorageOrder ==
    [][variant = "unsorted" =>
          LET k == last'.key
              at == {i \in 1..Len(unsorted) : unsorted[i].key = k}
          IN  /\ (last'.op = "set" /\ at # {}) =>
                    /\ ULM_iter(unsorted') = ULM_iter(unsorted)
                    /\ \A i \in 1..Len(unsorted) :
                          unsorted'[i] = IF i \in at
                                         THEN Item(k, last'.value)
                                         ELSE unsorted[i]
              /\ (last'.op = "set" /\ at = {}) =>
                    unsorted' = unsorted \o <<Item(k, last'.value)>>
              /\ (last'.op = "del" /\ at # {}) =>
                    /\ last'.out = ReturnedNone
                    /\ unsorted' = SelectSeq(unsorted, LAMBDA e : e.key # k)
              /\ (last'.op = "del" /\ at = {}) => unsorted' = unsorted
              /\ last'.op = "get" => unsorted' = unsorted]_vars

\* A set has appended the smallest key to a list that begins with the
\* largest one: iteration is in the order of the sets, not of the keys.
C21_Witness ==
    /\ variant = "unsorted"
    /\ last.op = "set" /\ Length = last.len + 1
    /\ Len(unsorted) = MaxKey + 1
    /\ unsorted[Len(unsorted)].key = 0
    /\ unsorted[1].key = MaxKey

\* A delete has removed a key from the middle of the list and the keys
\* around it kept their order, which is not the order of the keys.
StorageOrderAfterDelete ==
    /\ variant = "unsorted"
    /\ last.op = "del" /\ last.out = ReturnedNone
    /\ Len(unsorted) = 2
    /\ unsorted[1].key > last.key /\ last.key > unsorted[2].key

(***************************************************************************)
(* C22  A LinkedQueue is first in, first out, and consistent, after any    *)
(* enqueues and dequeues: dequeue returns and removes the elements in the  *)
(* order they were enqueued; first() returns the oldest element and        *)
(* removes nothing; len() is the number of enqueues less the dequeues that *)
(* returned; _head and _tail are both None exactly when the size is 0, and *)
(* otherwise _tail is the last node reached from _head; dequeue and first  *)
(* on an empty queue end in Empty and leave the queue as it was.           *)
(***************************************************************************)
\* The nodes of the queue from _head on, and their elements.
QueueNodes(q) == NodesFrom(q.node, q.head, Cardinality(DOMAIN q.node))

QueueElements(q) == [i \in 1..Len(QueueNodes(q)) |-> q.node[QueueNodes(q)[i]].element]

QueueConsistent ==
    /\ QueueElements(queue) = fifo
    /\ LinkedQueue_len(queue) = Len(fifo)
    /\ queue.head = 0 <=> LinkedQueue_len(queue) = 0
    /\ queue.tail = 0 <=> LinkedQueue_len(queue) = 0
    /\ LinkedQueue_len(queue) > 0 =>
          /\ queue.tail = QueueNodes(queue)[Len(QueueNodes(queue))]
          /\ queue.node[queue.tail].next = 0
    /\ LinkedQueue_first(queue) = IF fifo = <<>> THEN Empty ELSE Returned(fifo[1])
    /\ last.op \in {"enqueue", "dequeue", "first"} => last.out = last.ref

C22_QueueFIFO ==
    /\ [](variant = "queue" => QueueConsistent)
    /\ [][variant = "queue" =>
            /\ (last'.op = "enqueue") =>
                  /\ QueueElements(queue') = Append(QueueElements(queue), last'.value)
                  /\ LinkedQueue_len(queue') = LinkedQueue_len(queue) + 1
            /\ (last'.op = "dequeue" /\ LinkedQueue_len(queue) > 0) =>
                  /\ last'.out = Returned(QueueElements(queue)[1])
                  /\ QueueElements(queue') = Tail(QueueElements(queue))
                  /\ LinkedQueue_len(queue') = LinkedQueue_len(queue) - 1
            /\ (last'.op \in {"dequeue", "first"} /\ LinkedQueue_len(queue) = 0) =>
                  last'.out = Empty /\ queue' = queue
            /\ last'.op = "first" => queue' = queue]_vars

\* A dequeue has returned the oldest of three elements and left the two
\* it differs from, in their order.
C22_Witness ==
    /\ variant = "queue"
    /\ last.op = "dequeue" /\ last.out.kind = "value" /\ last.len = MaxQueue
    /\ Len(fifo) = 2 /\ fifo[1] # last.out.val /\ fifo[2] = last.out.val
    /\ QueueElements(queue) = fifo

\* A dequeue on an empty queue has ended in Empty.
QueueEmptyError ==
    /\ variant = "queue"
    /\ last.op = "dequeue" /\ last.out = Empty
    /\ queue = LinkedQueue_init

====
